---- MODULE Spec2Model ----
(***************************************************************************)
(* Offline draft queue and synchronisation of the civic_pulse frontend.    *)
(*                                                                         *)
(* Spec    : the drain started by App on every isOnline -> true change     *)
(*           (App.tsx), running syncDrafts (services/sync.ts and its       *)
(*           createReport variant) over the IndexedDB draft store          *)
(*           (services/db.ts) with uploadReport's retry loop               *)
(*           (services/api.ts).                                            *)
(* SpecRoundTrip : the same engine in the environment of the offline       *)
(*           round trip.                                                   *)
(* SpecCtx : the submission paths of the UI: ReportContext (addReport,     *)
(*           loadDrafts, syncOfflineDrafts over idb-keyval) and            *)
(*           PhotoCapture.handleSubmit (createReport).                     *)
(* SpecConn, SpecRestart, SpecDurable : the same components with both      *)
(*           "online" listeners, with teardown and relaunch, and with      *)
(*           fresh draft ids.                                              *)
(* SpecServer, SpecLedger : ingestion, duplicate detection and upvotes on  *)
(*           the server, as the specification describes them.              *)
(* SpecAuth : AuthProvider (context/AuthContext.tsx) and ProtectedRoute.    *)
(* SpecUpload, SpecOneDrain : one drain over drafts enqueued offline, with  *)
(*           fairness for uploadReport's fetches and timers.               *)
(* SpecPolling : ReportContext with useReportsPolling.                     *)
(* SpecWs  : useWebSocket (hooks/useWebSocket.ts).                         *)
(***************************************************************************)
EXTENDS Integers, Sequences, FiniteSets, TLC

\* ---------------------------------------------------------------- bounds
MaxSubs   == 2      \* submissions saved as drafts in one run
MaxId     == 2      \* distinct draft ids (keys of the object store)
MaxDrains == 2      \* syncDrafts calls that can be running at once
MaxOnline == 1      \* browser "online" events in one run
MaxUiSubs == 2      \* submissions made through the UI in one run
MaxCtxSyncs == 2    \* syncOfflineDrafts calls that can be running at once
MaxReqs   == 2      \* ingestion calls that reach the server in one run
MaxDrafts == 2      \* drafts submitted to the server in one run
MaxUsers  == 2      \* authenticated identities
MaxAccounts == 2    \* accounts that can sign in
MaxAuthCalls == 2   \* login/register calls made in one run
MaxPolled == 2      \* reports that polling refreshes deliver in one run
MaxSockets == 3     \* WebSocket objects one hook creates in one run
MaxTimers == 3      \* reconnect timers one hook sets in one run

\* ------------------------------------------------------ program constants
DefaultRetries == 3      \* uploadReport(report, retries = 3)
RetryDelayMs   == 2000   \* setTimeout(r, 2000)
DuplicateRadius == 50    \* metres: the duplicate radius
DefaultSeverity == 5     \* severity of a Report the classifier gave no answer for

Ids      == 1..MaxId
Subs     == 1..MaxSubs
DrainIds == 1..MaxDrains
CtxSyncIds == 1..MaxCtxSyncs

\* The two versions of syncDrafts in the repository: sync.ts awaits
\* uploadReport (retry loop), the other awaits createReport inside try/catch.
Variants == {"uploadReport", "createReport"}

\* What one fetch of POST /api/reports/ can settle with.
\*   created  : 2xx, res.ok                (new Report)
\*   conflict : 409, !res.ok               (duplicate matched)
\*   invalid  : 4xx other than 409, !res.ok
\*   error    : 5xx, or fetch rejected (network failure, timeout)
Responses == {"created", "conflict", "invalid", "error"}

VARIABLES
    variant,          \* which syncDrafts is bundled
    navigatorOnLine,  \* navigator.onLine
    debouncing,       \* useOnlineStatus: a connectivity change awaits its debounce
    isOnline,         \* useOnlineStatus(): the value App renders with
    store,            \* IndexedDB object store "drafts": id -> submission (0 = no record)
    nextSub,          \* number the next submission gets (creation order)
    drain,            \* DrainIds -> state of one syncDrafts call
    onlineEvents,     \* browser "online" events delivered so far
    outcomes,         \* submission -> terminal server outcomes (created/conflict), saturating at 2
    failed            \* submissions an upload call gave up on (it returned false / threw)

VARIABLES
    kv,               \* idb-keyval: key `draft-${id}` -> submission (0 = no entry)
    reports,          \* ReportContext state `reports`
    offlineDrafts,    \* ReportContext state `offlineDrafts`
    ctxSync,          \* CtxSyncIds -> state of one syncOfflineDrafts call
    loadPc,           \* loadDrafts of the mount effect: "keys", "set" or "done"
    loadSnap,         \* the drafts loadDrafts has read
    photoPc,          \* PhotoCapture.handleSubmit: "idle" or "submitting"
    photoSub,         \* the submission PhotoCapture is sending
    photoResult,      \* PhotoCapture: "none", "success" or "error"
    uiNext,           \* number the next UI submission gets
    drafted,          \* submissions ever written to the idb-keyval draft store
    deleted,          \* submissions whose draft record a del() removed
    uiCalled,         \* submissions an ingestion call was issued for
    acked,            \* submissions an ingestion call answered terminally (created/conflict)
    notified,         \* submissions whose form told the user "Report submitted!"
    writeFailed       \* submissions whose write to the draft store was rejected

syncVars == << variant, debouncing, isOnline, store, nextSub, drain, onlineEvents,
               outcomes, failed >>

formVars == << notified, writeFailed >>

uiVars == << kv, reports, offlineDrafts, ctxSync, loadPc, loadSnap, photoPc, photoSub,
             photoResult, uiNext, drafted, deleted, uiCalled, acked, formVars >>

\* The server behind POST /api/reports/ and POST /api/reports/{id}/upvote.
VARIABLES
    srvReports,       \* the Report table, in creation order (index = report id)
    srvUpvotes,       \* the Upvote table: (report, voter) -> number of rows
    req,              \* DraftIds -> the upload of one draft: its current ingestion call
    calls,            \* ingestion calls issued so far
    voted             \* (report, voter) -> upvote calls made with the pair, saturating at 2

srvVars == << srvReports, srvUpvotes, req, calls, voted >>

\* AuthProvider (context/AuthContext.tsx)
VARIABLES
    accessToken,      \* localStorage "access_token": 0 = absent, else the account it names
    user,             \* useState user: 0 = null, else the account
    loading,          \* useState loading
    error,            \* useState error is non-null
    mountGetMe,       \* the getMe() of the mount effect: [pc, hdr]
    authCall,         \* login/register calls: [pc, acct, hdr, before]; pc "done" is
                      \* a resolved call, "failed" a rejected one, before the
                      \* token stored when the call was made
    loggedOut,        \* logout() has returned and login/register was not invoked since
    shown             \* the guarded route on screen: [requireAdmin, element]

authVars == << accessToken, user, loading, error, mountGetMe, authCall, loggedOut, shown >>

\* useWebSocket (hooks/useWebSocket.ts), one mounted hook
VARIABLES
    mounted,          \* the effect has run and its cleanup has not
    sock,             \* every WebSocket created: "none", "connecting", "open",
                      \* "closing" (close event pending), "closed"
    wsRef,            \* wsRef.current: 0 = null, else the socket
    timers,           \* the setTimeout(connect, 5000) timers that are pending
    reconnectTimer,   \* reconnectTimer.current: 0 = null, else the timer id
    nextTimer         \* the id the next setTimeout returns

wsVars == << mounted, sock, wsRef, timers, reconnectTimer, nextTimer >>

extVars == << srvVars, authVars, wsVars >>

vars == << navigatorOnLine, syncVars, uiVars, extVars >>

nonSrvVars == << navigatorOnLine, syncVars, uiVars, authVars, wsVars >>

\* One syncDrafts call. pc is the await it is suspended at:
\*   "getDrafts" : await getDrafts()
\*   "await"     : await fetch(...)              (the ingestion call is in flight)
\*   "sleep"     : await new Promise(setTimeout) (uploadReport's catch, retries > 0)
\*   "delete"    : await deleteDraft(draft.id)
\*   "idle"      : not running
\* drafts/i are the snapshot and the loop position; retries, attempts, waited
\* and res belong to the uploadReport call of drafts[i]: the remaining retries,
\* the fetches issued, the delays slept, and the last response. `after` is
\* history: the submissions already given up on when the call was made.
IdleDrain ==
    [pc |-> "idle", drafts |-> << >>, i |-> 0, retries |-> 0,
     attempts |-> 0, waited |-> << >>, res |-> "none", after |-> {}]

\* db.getAll(STORE): every record, in ascending key order.
RECURSIVE GetAllFrom(_, _)
GetAllFrom(st, k) ==
    IF k > MaxId THEN << >>
    ELSE IF st[k] = 0 THEN GetAllFrom(st, k + 1)
         ELSE << [id |-> k, sub |-> st[k]] >> \o GetAllFrom(st, k + 1)

\* variant of getDrafts that leaves out the drafts an upload gave up on
getDraftsSkipFailed(st) ==
    GetAllFrom([k \in Ids |-> IF st[k] \in failed THEN 0 ELSE st[k]], 1)

getDrafts(st) == GetAllFrom(st, 1)

\* db.put(STORE, report): keyPath "id", an existing record of the key is replaced.
Put(st, id, sub) == [st EXCEPT ![id] = sub]

\* db.delete(STORE, id)
Delete(st, id) == [st EXCEPT ![id] = 0]

\* retries a syncDrafts variant enters its upload with: uploadReport's default
\* parameter, or none for createReport (its throw is caught by syncDrafts).
InitialRetries(v) == IF v = "uploadReport" THEN DefaultRetries ELSE 0

\* a check that takes every response for a success
OkAnyResponse(r) == r # "error"

\* res.ok
Ok(r) == r = "created"

\* catch { if (retries > 0) ... }: is the failed attempt followed by another one
ShouldRetry(r, retries) == retries > 0

\* delay of the setTimeout in uploadReport's catch, after `n` failed attempts
RetryDelay(n) == RetryDelayMs

FreeSlots == {d \in DrainIds : drain[d].pc = "idle"}

\* a loop that a failed upload ends
NextDraftUntilFailure(r, i) ==
    IF i > Len(r.drafts) \/ r.pc = "await" THEN IdleDrain
    ELSE [r EXCEPT !.pc = "await", !.i = i, !.retries = InitialRetries(variant),
                   !.attempts = 1, !.waited = << >>, !.res = "none"]

\* The for-loop of syncDrafts reaching drafts[i]: it returns past the end, and
\* otherwise runs synchronously into uploadReport/createReport up to its fetch.
NextDraft(r, i) ==
    IF i > Len(r.drafts) THEN IdleDrain
    ELSE [r EXCEPT !.pc = "await", !.i = i, !.retries = InitialRetries(variant),
                   !.attempts = 1, !.waited = << >>, !.res = "none"]

\* syncDrafts(): the call itself, up to its first await.
syncDrafts(dr) ==
    LET d == CHOOSE x \in FreeSlots : \A y \in FreeSlots : x <= y
    IN [dr EXCEPT ![d] = [IdleDrain EXCEPT !.pc = "getDrafts", !.after = failed]]

\* App: useEffect(() => { if (isOnline) syncDrafts(); }, [isOnline])
AppEffect(dr, was, now) == IF now /\ ~was THEN syncDrafts(dr) ELSE dr

\* ------------------------------------------------------------- the server
Reqs  == 1..MaxReqs
DraftIds == 1..MaxDrafts
Users == 1..MaxUsers

\* Coordinates: points of one meridian, given by their offset in metres; the
\* great-circle distance of two of them is the difference of the offsets.
Positions == {0, 50, 100}

Categories == {"Pothole", "Other"}

\* the category a Report gets when the classifier gave no answer
DefaultCategory == "Other"

\* what the caller can send as category override
Overrides == {"none", "Pothole"}

\* what one invocation of the external classifier can give: a label and a
\* severity, or no answer (unavailable, error)
ClassifierResults ==
    { [ok |-> TRUE, cat |-> "Pothole", sev |-> 8],
      [ok |-> FALSE, cat |-> "none", sev |-> 0] }

\* statuses an admin can set
AdminStatuses == {"InProgress", "Fixed"}

\* the keys of the Upvote table
Pairs == Reqs \X Users

\* great-circle distance in metres
Distance(a, b) == IF a >= b THEN a - b ELSE b - a

\* a Report that is marked Fixed, and so archived, is left out
ActiveInverted(r) == r.archived

\* active: takes part in duplicate detection
Active(r) == ~r.archived

\* a detector that also considers archived Reports
MatchArchived(reps, pos, cat) ==
    LET cands == {i \in 1..Len(reps) :
                     reps[i].cat = cat /\ Distance(reps[i].pos, pos) <= DuplicateRadius}
    IN IF cands = {} THEN 0 ELSE CHOOSE i \in cands : \A j \in cands : i <= j

\* a detector that compares coordinates for equality instead of by radius
MatchExact(reps, pos, cat) ==
    LET cands == {i \in 1..Len(reps) :
                     Active(reps[i]) /\ reps[i].cat = cat /\ reps[i].pos = pos}
    IN IF cands = {} THEN 0 ELSE CHOOSE i \in cands : \A j \in cands : i <= j

\* Duplicate Detector: the active Report of the category within the radius,
\* the nearest one, and the earliest created among equally near ones; 0 for
\* "no match".
Match(reps, pos, cat) ==
    LET cands == {i \in 1..Len(reps) :
                     /\ Active(reps[i])
                     /\ reps[i].cat = cat
                     /\ Distance(reps[i].pos, pos) <= DuplicateRadius}
        dist(i) == Distance(reps[i].pos, pos)
    IN IF cands = {} THEN 0
       ELSE CHOOSE i \in cands :
               \A j \in cands : dist(i) < dist(j) \/ (dist(i) = dist(j) /\ i <= j)

HasRow(rows, r, v) == rows[<< r, v >>] > 0

\* an insert without the uniqueness check
InsertAlways(rows, r, v) == [rows EXCEPT ![<< r, v >>] = @ + 1]

\* Upvote Ledger: insert-if-absent keyed by (report, voter)
InsertIfAbsent(rows, r, v) ==
    IF HasRow(rows, r, v) THEN rows ELSE [rows EXCEPT ![<< r, v >>] = @ + 1]

\* an increment on every call, first insert or not
CountAlways(reps, rows, r, v) == [reps EXCEPT ![r].upvote_count = @ + 1]

\* Upvote Ledger: the owning Report's upvote_count after upvote(r, v)
CountAfter(reps, rows, r, v) ==
    IF HasRow(rows, r, v) THEN reps ELSE [reps EXCEPT ![r].upvote_count = @ + 1]

\* a classification without the default: a submission the classifier gave no
\* answer for keeps an empty category and severity
ClassifiedNoDefault(c, override) ==
    [cat |-> IF override # "none" THEN override ELSE c.cat, sev |-> c.sev]

\* the category and severity of a submission: the classifier's answer or the
\* default, the category replaced by the caller's override if there is one
Classified(c, override) ==
    [cat |-> IF override # "none" THEN override
             ELSE IF c.ok THEN c.cat ELSE DefaultCategory,
     sev |-> IF c.ok THEN c.sev ELSE DefaultSeverity]

\* The upload of one draft. pc is where its current ingestion call stands:
\*   "idle"       : not submitted
\*   "sent"       : the client's fetch is on its way; the server classifies next
\*   "detect"     : classified, waiting to enter detect-then-write
\*   "responding" : the server has written; its response is on its way
\*   "done"       : the client has the response
\*   "lost"       : the response did not arrive (timeout, connection lost)
\* attempt counts the calls issued for the draft; cls (what the classifier did:
\* "answered", "failed"), cat, sev, result and match belong to the current call.
IdleReq ==
    [pc |-> "idle", attempt |-> 0, user |-> 0, pos |-> 0, override |-> "none",
     cls |-> "none", cat |-> "none", sev |-> 0, result |-> "none", match |-> 0]

InitServer ==
    /\ srvReports = << >>
    /\ srvUpvotes = [pr \in Pairs |-> 0]
    /\ req = [q \in DraftIds |-> IdleReq]
    /\ calls = 0
    /\ voted = [pr \in Pairs |-> 0]


\* ------------------------------------------------------------ ReportContext
IdleCtxSync == [pc |-> "idle", list |-> << >>, i |-> 0]

\* ReportProvider as mounted: empty lists, loadDrafts called by the mount effect
InitCtx ==
    /\ kv = [k \in Ids |-> 0]
    /\ reports = << >>
    /\ offlineDrafts = << >>
    /\ ctxSync = [k \in CtxSyncIds |-> IdleCtxSync]
    /\ loadPc = "keys"
    /\ loadSnap = << >>
    /\ photoPc = "idle"
    /\ photoSub = 0
    /\ photoResult = "none"
    /\ uiNext = 1
    /\ drafted = {}
    /\ deleted = {}
    /\ uiCalled = {}
    /\ acked = {}
    /\ notified = {}
    /\ writeFailed = {}

InitSync ==
    /\ variant \in Variants
    /\ navigatorOnLine \in BOOLEAN
    /\ debouncing = FALSE
    /\ isOnline = navigatorOnLine
    /\ store = [k \in Ids |-> 0]
    /\ nextSub = 1
    /\ drain = IF navigatorOnLine
               THEN [d \in DrainIds |-> IF d = 1 THEN [IdleDrain EXCEPT !.pc = "getDrafts"]
                                        ELSE IdleDrain]
               ELSE [d \in DrainIds |-> IdleDrain]
    /\ onlineEvents = 0
    /\ outcomes = [s \in Subs |-> 0]
    /\ failed = {}

\* AuthProvider at mount: the effect reads the stored token and, when there
\* is one, sends getMe() with it in the Authorization header.
Accounts == 1..MaxAccounts

AuthCalls == 1..MaxAuthCalls

IdleAuthCall == [pc |-> "idle", acct |-> 0, hdr |-> 0, before |-> 0]

\* the role the server keeps for an account: account 1 is the administrator
RoleOf(a) == IF a = 1 THEN "admin" ELSE "user"

\* isAdmin: user?.role === "admin"
isAdmin(usr) == usr # 0 /\ RoleOf(usr) = "admin"

\* a guard that does not look at the role
ProtectedRouteAnyRole(ld, usr, requireAdmin) ==
    IF ld THEN "Loading"
    ELSE IF usr = 0 THEN "Navigate /login"
    ELSE "children"

\* ProtectedRoute({children, requireAdmin}): the element it returns for the
\* auth state (loading, user)
ProtectedRoute(ld, usr, requireAdmin) ==
    IF ld THEN "Loading"
    ELSE IF ~(usr # 0) THEN "Navigate /login"
    ELSE IF requireAdmin /\ ~isAdmin(usr) THEN "Navigate /"
    ELSE "children"

InitAuth(stored) ==
    /\ accessToken = stored
    /\ user = 0
    /\ error = FALSE
    /\ loading = (stored # 0)
    /\ mountGetMe = [pc |-> IF stored # 0 THEN "getMe" ELSE "done", hdr |-> stored]
    /\ authCall = [c \in AuthCalls |-> IdleAuthCall]
    /\ loggedOut = FALSE
    /\ shown = [requireAdmin |-> FALSE,
                element |-> ProtectedRoute(stored # 0, 0, FALSE)]

\* useWebSocket as mounted: the effect has called connect(), which created
\* the first WebSocket.
Sockets == 1..MaxSockets

InitWs ==
    /\ mounted = TRUE
    /\ sock = [x \in Sockets |-> IF x = 1 THEN "connecting" ELSE "none"]
    /\ wsRef = 1
    /\ timers = {}
    /\ reconnectTimer = 0
    /\ nextTimer = 1

Init ==
    /\ InitCtx
    /\ InitSync
    /\ InitServer
    /\ InitAuth(0)
    /\ InitWs

\* saveDraft(report)
saveDraft(id) ==
    /\ nextSub <= MaxSubs
    /\ store' = Put(store, id, nextSub)
    /\ nextSub' = nextSub + 1
    /\ UNCHANGED << uiVars, extVars >>
    /\ UNCHANGED << variant, navigatorOnLine, debouncing, isOnline, drain,
                    onlineEvents, outcomes, failed >>

\* window "offline" event
BrowserOffline ==
    /\ navigatorOnLine
    /\ navigatorOnLine' = FALSE
    /\ debouncing' = TRUE
    /\ UNCHANGED << uiVars, extVars >>
    /\ UNCHANGED << variant, isOnline, store, nextSub, drain, onlineEvents, outcomes, failed >>

\* useOnlineStatus: its listener of the window "online" event
OnlineHook ==
    /\ ~navigatorOnLine
    /\ onlineEvents < MaxOnline
    /\ navigatorOnLine' = TRUE
    /\ onlineEvents' = onlineEvents + 1
    /\ debouncing' = TRUE
    /\ UNCHANGED << variant, isOnline, store, nextSub, drain, outcomes, failed >>

\* window "online" event
BrowserOnline ==
    /\ OnlineHook
    /\ UNCHANGED << uiVars, extVars >>

\* useOnlineStatus publishes the settled reachability and App re-renders: its
\* effect, keyed on [isOnline], runs when the value changed.
DebounceFire ==
    /\ debouncing
    /\ (navigatorOnLine /\ ~isOnline) => FreeSlots # {}
    /\ debouncing' = FALSE
    /\ isOnline' = navigatorOnLine
    /\ drain' = AppEffect(drain, isOnline, navigatorOnLine)
    /\ UNCHANGED << uiVars, extVars >>
    /\ UNCHANGED << variant, navigatorOnLine, store, nextSub, onlineEvents, outcomes, failed >>

\* const drafts = await getDrafts() resolves
GetDrafts(d) ==
    /\ drain[d].pc = "getDrafts"
    /\ drain' = [drain EXCEPT ![d] = NextDraft([drain[d] EXCEPT !.drafts = getDrafts(store)], 1)]
    /\ UNCHANGED << uiVars, extVars >>
    /\ UNCHANGED << variant, navigatorOnLine, debouncing, isOnline, store, nextSub,
                    onlineEvents, outcomes, failed >>

\* The fetch of POST /api/reports/ settles with r. res.ok returns true to
\* syncDrafts, which goes on to deleteDraft; anything else is thrown and caught:
\* uploadReport sleeps before its recursive call while retries are left, and
\* otherwise the draft is passed over and the loop moves on.
Respond(d, r) ==
    LET me  == drain[d]
        sub == me.drafts[me.i].sub
    IN
    /\ me.pc = "await"
    /\ r # "error" => navigatorOnLine
    /\ outcomes' = IF r \in {"created", "conflict"}
                   THEN [outcomes EXCEPT ![sub] = IF @ < 2 THEN @ + 1 ELSE 2]
                   ELSE outcomes
    /\ drain' = [drain EXCEPT ![d] =
                   IF Ok(r) THEN [me EXCEPT !.pc = "delete", !.res = r]
                   ELSE IF ShouldRetry(r, me.retries) THEN [me EXCEPT !.pc = "sleep", !.res = r]
                   ELSE NextDraft(me, me.i + 1)]
    /\ failed' = IF ~Ok(r) /\ ~ShouldRetry(r, me.retries) THEN failed \cup {sub} ELSE failed
    /\ UNCHANGED << uiVars, extVars >>
    /\ UNCHANGED << variant, navigatorOnLine, debouncing, isOnline, store, nextSub,
                    onlineEvents >>

\* The setTimeout of the catch block fires: return uploadReport(report, retries - 1),
\* which issues the next fetch.
Retry(d) ==
    /\ drain[d].pc = "sleep"
    /\ drain' = [drain EXCEPT ![d].pc = "await",
                              ![d].retries = @ - 1,
                              ![d].attempts = @ + 1,
                              ![d].res = "none",
                              ![d].waited = Append(@, RetryDelay(drain[d].attempts - 1))]
    /\ UNCHANGED << uiVars, extVars >>
    /\ UNCHANGED << variant, navigatorOnLine, debouncing, isOnline, store, nextSub,
                    onlineEvents, outcomes, failed >>

\* await deleteDraft(draft.id) resolves, and the loop continues
DeleteDraft(d) ==
    LET me == drain[d] IN
    /\ me.pc = "delete"
    /\ store' = Delete(store, me.drafts[me.i].id)
    /\ drain' = [drain EXCEPT ![d] = NextDraft(me, me.i + 1)]
    /\ UNCHANGED << uiVars, extVars >>
    /\ UNCHANGED << variant, navigatorOnLine, debouncing, isOnline, nextSub,
                    onlineEvents, outcomes, failed >>

Next ==
    \/ \E id \in Ids : saveDraft(id)
    \/ BrowserOffline
    \/ BrowserOnline
    \/ DebounceFire
    \/ \E d \in DrainIds : GetDrafts(d)
    \/ \E d \in DrainIds, r \in Responses : Respond(d, r)
    \/ \E d \in DrainIds : Retry(d)
    \/ \E d \in DrainIds : DeleteDraft(d)

Spec == Init /\ [][Next]_vars

\* ------------------------------------------------- the offline round trip
\* The sync engine in the environment of the round-trip property: the device
\* starts offline, distinct drafts are enqueued while it is offline,
\* connectivity is then restored and stays, and the server answers every
\* ingestion call with accepted or conflict.

InitRoundTrip == Init /\ ~navigatorOnLine

EnqueueOffline(id) ==
    /\ ~navigatorOnLine
    /\ onlineEvents = 0
    /\ store[id] = 0
    /\ saveDraft(id)

RespondTerminal(d, r) == Respond(d, r)

NextRoundTrip ==
    \/ \E id \in Ids : EnqueueOffline(id)
    \/ BrowserOnline
    \/ DebounceFire
    \/ \E d \in DrainIds : GetDrafts(d)
    \/ \E d \in DrainIds, r \in {"created", "conflict"} : RespondTerminal(d, r)
    \/ \E d \in DrainIds : Retry(d)
    \/ \E d \in DrainIds : DeleteDraft(d)

SpecRoundTrip == InitRoundTrip /\ [][NextRoundTrip]_vars

\* uploadReport with fetches that settle and timers that fire: drafts are
\* enqueued offline, connectivity returns, and the server or the network
\* answers each fetch with any response.
NextUpload ==
    \/ \E id \in Ids : EnqueueOffline(id)
    \/ BrowserOnline
    \/ DebounceFire
    \/ \E d \in DrainIds : GetDrafts(d)
    \/ \E d \in DrainIds, r \in Responses : Respond(d, r)
    \/ \E d \in DrainIds : Retry(d)
    \/ \E d \in DrainIds : DeleteDraft(d)

InitUpload == InitRoundTrip /\ variant = "uploadReport"

SpecUpload ==
    /\ InitUpload
    /\ [][NextUpload]_vars
    /\ \A d \in DrainIds :
          /\ WF_vars(\E r \in Responses : Respond(d, r))
          /\ WF_vars(Retry(d))
          /\ WF_vars(GetDrafts(d))
          /\ WF_vars(DeleteDraft(d))

\* one drain of either syncDrafts, over drafts enqueued offline
SpecOneDrain == InitRoundTrip /\ [][NextUpload]_vars

\* the drain that the restored connectivity started has run to its end
DrainComplete ==
    /\ isOnline
    /\ ~debouncing
    /\ \A d \in DrainIds : drain[d].pc = "idle"

\* C3: offline round trip: once the drain after the reconnect is complete the
\* draft store is empty and every enqueued draft has exactly one server-side
\* outcome (one new Report or one conflict).
C3_RoundTrip ==
    DrainComplete =>
        /\ \A id \in Ids : store[id] = 0
        /\ \A s \in 1..(nextSub - 1) : outcomes[s] = 1

\* ------------------------------------------- ReportContext and PhotoCapture

\* every entry of the idb-keyval store, as loadDrafts collects them
RECURSIVE KvDraftsFrom(_, _)
KvDraftsFrom(st, k) ==
    IF k > MaxId THEN << >>
    ELSE IF st[k] = 0 THEN KvDraftsFrom(st, k + 1)
         ELSE << [id |-> k, sub |-> st[k]] >> \o KvDraftsFrom(st, k + 1)

FreeCtxSyncs == {k \in CtxSyncIds : ctxSync[k].pc = "idle"}

\* ReportForm.handleSubmit calls addReport(report) without awaiting it and
\* goes on to alert("Report submitted!"). addReport: online, the report goes
\* straight into `reports`; offline, it is written to idb-keyval and, when the
\* write has resolved, appended to `offlineDrafts`. A rejected write (quota
\* exceeded: writeOk = FALSE) rejects the promise nobody holds.
addReport(id, writeOk) ==
    LET report == [id |-> id, sub |-> uiNext] IN
    /\ uiNext <= MaxUiSubs
    /\ uiNext' = uiNext + 1
    /\ notified' = notified \cup {uiNext}
    /\ IF navigatorOnLine
       THEN /\ reports' = Append(reports, report)
            /\ UNCHANGED << kv, offlineDrafts, drafted, writeFailed >>
       ELSE IF writeOk
       THEN /\ kv' = [kv EXCEPT ![id] = uiNext]
            /\ offlineDrafts' = Append(offlineDrafts, report)
            /\ drafted' = drafted \cup {uiNext}
            /\ UNCHANGED << reports, writeFailed >>
       ELSE /\ writeFailed' = writeFailed \cup {uiNext}
            /\ UNCHANGED << kv, offlineDrafts, drafted, reports >>
    /\ UNCHANGED << ctxSync, loadPc, loadSnap, photoPc, photoSub, photoResult,
                    deleted, uiCalled, acked >>
    /\ UNCHANGED << navigatorOnLine, syncVars, extVars >>

\* loadDrafts: keys() and the get() of every key
LoadKeys ==
    /\ loadPc = "keys"
    /\ loadPc' = "set"
    /\ loadSnap' = KvDraftsFrom(kv, 1)
    /\ UNCHANGED << kv, reports, offlineDrafts, ctxSync, photoPc, photoSub, photoResult,
                    uiNext, drafted, deleted, uiCalled, acked >>
    /\ UNCHANGED << navigatorOnLine, syncVars, extVars >>
    /\ UNCHANGED formVars

\* loadDrafts: setOfflineDrafts(drafts)
LoadSet ==
    /\ loadPc = "set"
    /\ loadPc' = "done"
    /\ offlineDrafts' = loadSnap
    /\ loadSnap' = << >>
    /\ UNCHANGED << kv, reports, ctxSync, photoPc, photoSub, photoResult,
                    uiNext, drafted, deleted, uiCalled, acked >>
    /\ UNCHANGED << navigatorOnLine, syncVars, extVars >>
    /\ UNCHANGED formVars

\* window "offline" event
CtxOffline ==
    /\ navigatorOnLine
    /\ navigatorOnLine' = FALSE
    /\ UNCHANGED << syncVars, uiVars, extVars >>

\* handleOnline calls syncOfflineDrafts(), which runs up to its first
\* `await del(...)`, or to its end when there is no draft.
handleOnline ==
    /\ IF offlineDrafts = << >>
       THEN UNCHANGED << reports, ctxSync, offlineDrafts >>
       ELSE /\ FreeCtxSyncs # {}
            /\ LET k == CHOOSE x \in FreeCtxSyncs : \A y \in FreeCtxSyncs : x <= y
               IN ctxSync' = [ctxSync EXCEPT ![k] = [pc |-> "del", list |-> offlineDrafts, i |-> 1]]
            /\ reports' = Append(reports, offlineDrafts[1])
            /\ UNCHANGED offlineDrafts
    /\ UNCHANGED << kv, loadPc, loadSnap, photoPc, photoSub, photoResult,
                    uiNext, drafted, deleted, uiCalled, acked >>
    /\ UNCHANGED formVars

\* window "online" event
CtxOnline ==
    /\ ~navigatorOnLine
    /\ navigatorOnLine' = TRUE
    /\ handleOnline
    /\ UNCHANGED << syncVars, extVars >>

\* syncOfflineDrafts: `await del(`draft-${draft.id}`)` resolves; the loop goes
\* on to the next draft, or ends with setOfflineDrafts([]).
CtxDel(k) ==
    LET me == ctxSync[k]
        id == me.list[me.i].id
    IN
    /\ me.pc = "del"
    /\ kv' = [kv EXCEPT ![id] = 0]
    /\ deleted' = IF kv[id] = 0 THEN deleted ELSE deleted \cup {kv[id]}
    /\ IF me.i < Len(me.list)
       THEN /\ reports' = Append(reports, me.list[me.i + 1])
            /\ ctxSync' = [ctxSync EXCEPT ![k].i = me.i + 1]
            /\ UNCHANGED offlineDrafts
       ELSE /\ offlineDrafts' = << >>
            /\ ctxSync' = [ctxSync EXCEPT ![k] = IdleCtxSync]
            /\ UNCHANGED reports
    /\ UNCHANGED << loadPc, loadSnap, photoPc, photoSub, photoResult,
                    uiNext, drafted, uiCalled, acked >>
    /\ UNCHANGED << navigatorOnLine, syncVars, extVars >>
    /\ UNCHANGED formVars

\* PhotoCapture.handleSubmit up to `await createReport(formData)`: without a
\* photo it sets the error and returns; otherwise the ingestion call is issued.
handleSubmit(hasPhoto) ==
    /\ photoPc = "idle"
    /\ IF ~hasPhoto
       THEN /\ photoResult' = "error"
            /\ UNCHANGED << photoPc, photoSub, uiNext, uiCalled >>
       ELSE /\ uiNext <= MaxUiSubs
            /\ photoPc' = "submitting"
            /\ photoSub' = uiNext
            /\ uiNext' = uiNext + 1
            /\ uiCalled' = uiCalled \cup {uiNext}
            /\ photoResult' = "none"
    /\ UNCHANGED << kv, reports, offlineDrafts, ctxSync, loadPc, loadSnap,
                    drafted, deleted, acked >>
    /\ UNCHANGED << navigatorOnLine, syncVars, extVars >>
    /\ UNCHANGED formVars

\* createReport settles: success, or the catch block's error message
SubmitSettled(r) ==
    /\ photoPc = "submitting"
    /\ r # "error" => navigatorOnLine
    /\ photoPc' = "idle"
    /\ photoResult' = IF Ok(r) THEN "success" ELSE "error"
    /\ acked' = IF r \in {"created", "conflict"} THEN acked \cup {photoSub} ELSE acked
    /\ UNCHANGED << kv, reports, offlineDrafts, ctxSync, loadPc, loadSnap, photoSub,
                    uiNext, drafted, deleted, uiCalled >>
    /\ UNCHANGED << navigatorOnLine, syncVars, extVars >>
    /\ UNCHANGED formVars

NextCtx ==
    \/ \E id \in Ids, writeOk \in BOOLEAN : addReport(id, writeOk)
    \/ LoadKeys
    \/ LoadSet
    \/ CtxOffline
    \/ CtxOnline
    \/ \E k \in CtxSyncIds : CtxDel(k)
    \/ \E hasPhoto \in BOOLEAN : handleSubmit(hasPhoto)
    \/ \E r \in Responses : SubmitSettled(r)

\* the sync engine is left out of this specification: its variables stay as
\* initialised
InitUi == Init /\ variant = "uploadReport"

SpecCtx == InitUi /\ [][NextCtx]_vars

\* ------------------------------------------------------ useReportsPolling
\* ids of the reports the server lists: none that the device generated
ServerReportIds == {MaxId + n : n \in 1..MaxPolled}

\* the entries of `reports` that a polling refresh delivered
Polled == {i \in 1..Len(reports) : reports[i].sub = 0}

\* fetchReports: axios.get("/api/reports") resolves and every report of the
\* answer is passed to addReport; the server's list holds the report `id`.
\* Without a connection the get rejects and the catch block logs it.
fetchReports(id) ==
    /\ navigatorOnLine
    /\ Cardinality(Polled) < MaxPolled
    /\ reports' = Append(reports, [id |-> id, sub |-> 0])
    /\ UNCHANGED << kv, offlineDrafts, ctxSync, loadPc, loadSnap, photoPc, photoSub,
                    photoResult, uiNext, drafted, deleted, uiCalled, acked, formVars >>
    /\ UNCHANGED << navigatorOnLine, syncVars, extVars >>

\* addReport with a generated id that no report on the device has
addReportUnique(id, writeOk) ==
    /\ kv[id] = 0
    /\ \A i \in 1..Len(reports) : reports[i].id # id
    /\ addReport(id, writeOk)

\* ReportContext with polling refreshes
NextPolling ==
    \/ \E id \in Ids, writeOk \in BOOLEAN : addReportUnique(id, writeOk)
    \/ \E id \in ServerReportIds : fetchReports(id)
    \/ LoadKeys
    \/ LoadSet
    \/ CtxOffline
    \/ CtxOnline
    \/ \E k \in CtxSyncIds : CtxDel(k)

SpecPolling == InitUi /\ [][NextPolling]_vars

\* ------------------------------------------- both listeners of "online"
\* The window "online" event as the mounted application gets it: the listener
\* of useOnlineStatus and ReportContext's handleOnline both run.
WindowOnline ==
    /\ OnlineHook
    /\ handleOnline
    /\ UNCHANGED extVars

\* The draft store of services/db.ts stays empty in this specification, so a
\* drain that App starts ends when its getDrafts resolves.
NextConn ==
    \/ \E id \in Ids, writeOk \in BOOLEAN : addReport(id, writeOk)
    \/ LoadKeys
    \/ LoadSet
    \/ BrowserOffline
    \/ WindowOnline
    \/ DebounceFire
    \/ \E d \in DrainIds : GetDrafts(d)
    \/ \E k \in CtxSyncIds : CtxDel(k)

SpecConn == InitUi /\ [][NextConn]_vars

\* ------------------------------------------------- teardown and relaunch

\* The application is torn down (tab closed, process killed) and launched
\* again. Everything in memory is gone: running syncDrafts and
\* syncOfflineDrafts calls, pending fetches and timers, React state. Both
\* IndexedDB databases keep their records. On launch the providers mount as
\* in Init: loadDrafts is called, and App's effect starts a drain when the
\* device is online.
Restart ==
    /\ drain' = [d \in DrainIds |->
                    IF d = 1 /\ navigatorOnLine
                    THEN [IdleDrain EXCEPT !.pc = "getDrafts", !.after = failed]
                    ELSE IdleDrain]
    /\ debouncing' = FALSE
    /\ isOnline' = navigatorOnLine
    /\ reports' = << >>
    /\ offlineDrafts' = << >>
    /\ ctxSync' = [k \in CtxSyncIds |-> IdleCtxSync]
    /\ loadPc' = "keys"
    /\ loadSnap' = << >>
    /\ photoPc' = "idle"
    /\ photoSub' = 0
    /\ photoResult' = "none"
    /\ UNCHANGED << store, kv >>
    /\ UNCHANGED << variant, navigatorOnLine, nextSub, onlineEvents, outcomes, failed >>
    /\ UNCHANGED << uiNext, drafted, deleted, uiCalled, acked, formVars >>
    /\ UNCHANGED extVars

\* saveDraft with a generated id: crypto.randomUUID() gives none that is in
\* the store
saveDraftFresh(id) == store[id] = 0 /\ saveDraft(id)

\* the sync engine with teardowns
NextRestart ==
    \/ \E id \in Ids : saveDraftFresh(id)
    \/ BrowserOffline
    \/ BrowserOnline
    \/ DebounceFire
    \/ \E d \in DrainIds : GetDrafts(d)
    \/ \E d \in DrainIds, r \in Responses : Respond(d, r)
    \/ \E d \in DrainIds : Retry(d)
    \/ \E d \in DrainIds : DeleteDraft(d)
    \/ Restart

SpecRestart == Init /\ [][NextRestart]_vars

\* The environment of the durability property: ReportContext with
\* teardowns, every draft saved under an id that is not in the store.
addReportFresh(id, writeOk) == kv[id] = 0 /\ addReport(id, writeOk)

NextDurable ==
    \/ \E id \in Ids, writeOk \in BOOLEAN : addReportFresh(id, writeOk)
    \/ LoadKeys
    \/ LoadSet
    \/ CtxOffline
    \/ CtxOnline
    \/ \E k \in CtxSyncIds : CtxDel(k)
    \/ Restart

SpecDurable == InitUi /\ [][NextDurable]_vars

\* ------------------------------------------------- ingestion and upvotes

\* The client issues the first ingestion call for draft q, submitted by user u;
\* drafts are numbered in the order of their submission.
Submit(q, u, p, o) ==
    /\ req[q].pc = "idle"
    /\ \A x \in 1..(q - 1) : req[x].pc # "idle"
    /\ calls < MaxReqs
    /\ calls' = calls + 1
    /\ req' = [req EXCEPT ![q] = [IdleReq EXCEPT !.pc = "sent", !.attempt = 1, !.user = u,
                                                !.pos = p, !.override = o]]
    /\ UNCHANGED << srvReports, srvUpvotes, voted >>
    /\ UNCHANGED nonSrvVars

\* Ingestion (a)-(b): the classifier is consulted, its answer or the default
\* is taken, and the caller's override replaces the category.
Classify(q, c) ==
    /\ req[q].pc = "sent"
    /\ req' = [req EXCEPT ![q].pc = "detect",
                          ![q].cls = IF c.ok THEN "answered" ELSE "failed",
                          ![q].cat = Classified(c, req[q].override).cat,
                          ![q].sev = Classified(c, req[q].override).sev]
    /\ UNCHANGED << srvReports, srvUpvotes, calls, voted >>
    /\ UNCHANGED nonSrvVars

\* Ingestion (c)-(e), one serialized step: the Duplicate Detector runs; on a
\* match the Upvote Ledger is called for the submitter and the result is a
\* conflict naming the matched Report; otherwise a new Report is persisted.
DetectAndWrite(q) ==
    LET me == req[q]
        m  == Match(srvReports, me.pos, me.cat)
    IN
    /\ me.pc = "detect"
    /\ IF m # 0
       THEN /\ srvUpvotes' = InsertIfAbsent(srvUpvotes, m, me.user)
            /\ srvReports' = CountAfter(srvReports, srvUpvotes, m, me.user)
            /\ voted' = [voted EXCEPT ![<< m, me.user >>] = IF @ < 2 THEN @ + 1 ELSE 2]
            /\ req' = [req EXCEPT ![q].pc = "responding", ![q].result = "conflict",
                                  ![q].match = m]
       ELSE /\ srvReports' = Append(srvReports,
                                [pos |-> me.pos, cat |-> me.cat, sev |-> me.sev,
                                 owner |-> me.user, draft |-> q,
                                 status |-> "Reported", archived |-> FALSE,
                                 upvote_count |-> 0])
            /\ req' = [req EXCEPT ![q].pc = "responding", ![q].result = "created",
                                  ![q].match = Len(srvReports) + 1]
            /\ UNCHANGED << srvUpvotes, voted >>
    /\ UNCHANGED calls
    /\ UNCHANGED nonSrvVars

\* the response reaches the client
Deliver(q) ==
    /\ req[q].pc = "responding"
    /\ req' = [req EXCEPT ![q].pc = "done"]
    /\ UNCHANGED << srvReports, srvUpvotes, calls, voted >>
    /\ UNCHANGED nonSrvVars

\* the response does not reach the client: its fetch rejects
Lose(q) ==
    /\ req[q].pc = "responding"
    /\ req' = [req EXCEPT ![q].pc = "lost"]
    /\ UNCHANGED << srvReports, srvUpvotes, calls, voted >>
    /\ UNCHANGED nonSrvVars

\* uploadReport's catch: anything but an ok response (a rejected fetch, a 409)
\* is followed, while retries are left, by another fetch for the same draft.
ClientRetry(q) ==
    /\ \/ req[q].pc = "lost"
       \/ req[q].pc = "done" /\ ~Ok(req[q].result)
    /\ req[q].attempt <= DefaultRetries
    /\ calls < MaxReqs
    /\ calls' = calls + 1
    /\ req' = [req EXCEPT ![q].pc = "sent", ![q].attempt = @ + 1, ![q].cls = "none", ![q].cat = "none",
                          ![q].sev = 0, ![q].result = "none", ![q].match = 0]
    /\ UNCHANGED << srvReports, srvUpvotes, voted >>
    /\ UNCHANGED nonSrvVars

\* POST /api/reports/{id}/upvote by voter v
Upvote(r, v) ==
    /\ r \in 1..Len(srvReports)
    /\ srvUpvotes' = InsertIfAbsent(srvUpvotes, r, v)
    /\ srvReports' = CountAfter(srvReports, srvUpvotes, r, v)
    /\ voted' = [voted EXCEPT ![<< r, v >>] = IF @ < 2 THEN @ + 1 ELSE 2]
    /\ UNCHANGED << req, calls >>
    /\ UNCHANGED nonSrvVars

\* an admin sets the status of Report r; marking it Fixed archives it
MarkStatus(r, st) ==
    /\ r \in 1..Len(srvReports)
    /\ srvReports[r].status # st
    /\ srvReports' = [srvReports EXCEPT ![r].status = st,
                                        ![r].archived = @ \/ st = "Fixed"]
    /\ UNCHANGED << srvUpvotes, req, calls, voted >>
    /\ UNCHANGED nonSrvVars

\* ingestion with lost responses and client retries
NextServer ==
    \/ \E q \in DraftIds, u \in Users, p \in Positions, o \in Overrides : Submit(q, u, p, o)
    \/ \E q \in DraftIds, c \in ClassifierResults : Classify(q, c)
    \/ \E q \in DraftIds : DetectAndWrite(q)
    \/ \E q \in DraftIds : Deliver(q)
    \/ \E q \in DraftIds : Lose(q)
    \/ \E q \in DraftIds : ClientRetry(q)
    \/ \E r \in Reqs, st \in AdminStatuses : MarkStatus(r, st)

\* The environment of the upvote ledger: every submitter names the category
\* and the classifier answers.
SubmitNamed(q, u, p) == Submit(q, u, p, "Pothole")

ClassifyAnswered(q, c) == c.ok /\ Classify(q, c)

\* ingestion, the upvote endpoint and status changes
NextLedger ==
    \/ \E q \in DraftIds, u \in Users, p \in Positions : SubmitNamed(q, u, p)
    \/ \E q \in DraftIds, c \in ClassifierResults : ClassifyAnswered(q, c)
    \/ \E q \in DraftIds : DetectAndWrite(q)
    \/ \E q \in DraftIds : Deliver(q)
    \/ \E r \in Reqs, v \in Users : Upvote(r, v)
    \/ \E r \in Reqs, st \in AdminStatuses : MarkStatus(r, st)

\* the device is left out of these specifications: its variables stay as
\* initialised
InitSrv == Init /\ variant = "uploadReport" /\ navigatorOnLine

SpecServer == InitSrv /\ [][NextServer]_vars

SpecLedger == InitSrv /\ [][NextLedger]_vars

\* ------------------------------------------------------------ AuthProvider
isAuthenticated == user # 0

\* A change of the auth state renders the guarded route again.
Rerender ==
    shown' = [shown EXCEPT !.element = ProtectedRoute(loading', user', shown.requireAdmin)]

\* The router shows a guarded route: <ProtectedRoute> or
\* <ProtectedRoute requireAdmin> (main.tsx).
RouteTo(requireAdmin) ==
    /\ shown.requireAdmin # requireAdmin
    /\ shown' = [requireAdmin |-> requireAdmin,
                 element |-> ProtectedRoute(loading, user, requireAdmin)]
    /\ UNCHANGED << accessToken, user, loading, error, mountGetMe, authCall, loggedOut >>
    /\ UNCHANGED << navigatorOnLine, syncVars, uiVars, srvVars, wsVars >>

\* The mount effect's getMe() settles: .then(setUser), .catch(removeItem),
\* .finally(setLoading(false)). The server answers for the token the request
\* carried.
MountSettled(ok) ==
    /\ mountGetMe.pc = "getMe"
    /\ mountGetMe' = [mountGetMe EXCEPT !.pc = "done"]
    /\ loading' = FALSE
    /\ IF ok
       THEN user' = mountGetMe.hdr /\ UNCHANGED accessToken
       ELSE accessToken' = 0 /\ UNCHANGED user
    /\ UNCHANGED << error, authCall, loggedOut >>
    /\ Rerender
    /\ UNCHANGED << navigatorOnLine, syncVars, uiVars, srvVars, wsVars >>

\* login(email, password): setError(null), then await apiLogin.
login(c, a) ==
    /\ authCall[c].pc = "idle"
    /\ \A b \in AuthCalls : b < c => authCall[b].pc # "idle"
    /\ authCall' = [authCall EXCEPT ![c] = [pc |-> "apiLogin", acct |-> a, hdr |-> 0,
                                            before |-> accessToken]]
    /\ error' = FALSE
    /\ loggedOut' = FALSE
    /\ UNCHANGED << accessToken, user, loading, mountGetMe >>
    /\ Rerender
    /\ UNCHANGED << navigatorOnLine, syncVars, uiVars, srvVars, wsVars >>

\* register(email, password, phone): setError(null), then await apiRegister.
register(c, a) ==
    /\ authCall[c].pc = "idle"
    /\ \A b \in AuthCalls : b < c => authCall[b].pc # "idle"
    /\ authCall' = [authCall EXCEPT ![c] = [pc |-> "apiRegister", acct |-> a, hdr |-> 0,
                                            before |-> accessToken]]
    /\ error' = FALSE
    /\ loggedOut' = FALSE
    /\ UNCHANGED << accessToken, user, loading, mountGetMe >>
    /\ Rerender
    /\ UNCHANGED << navigatorOnLine, syncVars, uiVars, srvVars, wsVars >>

\* await apiRegister settles: on success the auto-login is sent, on failure
\* the catch block sets the error and rethrows.
RegisterSettled(c, ok) ==
    /\ authCall[c].pc = "apiRegister"
    /\ IF ok
       THEN authCall' = [authCall EXCEPT ![c].pc = "apiLogin"] /\ UNCHANGED error
       ELSE authCall' = [authCall EXCEPT ![c].pc = "failed"] /\ error' = TRUE
    /\ UNCHANGED << accessToken, user, loading, mountGetMe, loggedOut >>
    /\ Rerender
    /\ UNCHANGED << navigatorOnLine, syncVars, uiVars, srvVars, wsVars >>

\* await apiLogin settles: on success the token is stored and getMe() is sent
\* with it; on failure the catch block sets the error and rethrows.
LoginSettled(c, ok) ==
    /\ authCall[c].pc = "apiLogin"
    /\ IF ok
       THEN /\ accessToken' = authCall[c].acct
            /\ authCall' = [authCall EXCEPT ![c].pc = "getMe", ![c].hdr = authCall[c].acct]
            /\ UNCHANGED error
       ELSE /\ authCall' = [authCall EXCEPT ![c].pc = "failed"]
            /\ error' = TRUE
            /\ UNCHANGED accessToken
    /\ UNCHANGED << user, loading, mountGetMe, loggedOut >>
    /\ Rerender
    /\ UNCHANGED << navigatorOnLine, syncVars, uiVars, srvVars, wsVars >>

\* await getMe settles inside login/register: setUser(me) or the catch block.
GetMeSettled(c, ok) ==
    /\ authCall[c].pc = "getMe"
    /\ authCall' = [authCall EXCEPT ![c].pc = IF ok THEN "done" ELSE "failed"]
    /\ IF ok
       THEN user' = authCall[c].hdr /\ UNCHANGED error
       ELSE error' = TRUE /\ UNCHANGED user
    /\ UNCHANGED << accessToken, loading, mountGetMe, loggedOut >>
    /\ Rerender
    /\ UNCHANGED << navigatorOnLine, syncVars, uiVars, srvVars, wsVars >>

\* logout(): removeItem("access_token"), setUser(null), setError(null).
logout ==
    /\ accessToken' = 0
    /\ user' = 0
    /\ error' = FALSE
    /\ loggedOut' = TRUE
    /\ UNCHANGED << loading, mountGetMe, authCall >>
    /\ Rerender
    /\ UNCHANGED << navigatorOnLine, syncVars, uiVars, srvVars, wsVars >>

NextAuth ==
    \/ \E ok \in BOOLEAN : MountSettled(ok)
    \/ \E c \in AuthCalls, a \in Accounts : login(c, a)
    \/ \E c \in AuthCalls, a \in Accounts : register(c, a)
    \/ \E c \in AuthCalls, ok \in BOOLEAN : RegisterSettled(c, ok)
    \/ \E c \in AuthCalls, ok \in BOOLEAN : LoginSettled(c, ok)
    \/ \E c \in AuthCalls, ok \in BOOLEAN : GetMeSettled(c, ok)
    \/ logout
    \/ \E requireAdmin \in BOOLEAN : RouteTo(requireAdmin)

\* The application is opened with or without a stored token.
InitAuthSpec ==
    /\ InitCtx
    /\ InitSync
    /\ InitServer
    /\ InitWs
    /\ variant = "uploadReport"
    /\ navigatorOnLine
    /\ \E stored \in 0..MaxAccounts : InitAuth(stored)

SpecAuth == InitAuthSpec /\ [][NextAuth]_vars

\* ------------------------------------------------------------- useWebSocket
\* WebSocket objects that are open or connecting
Live(sk) == {x \in Sockets : sk[x] \in {"connecting", "open"}}

\* ws.close(): a socket that is open or connecting starts closing
Close(sk, x) ==
    IF x # 0 /\ sk[x] \in {"connecting", "open"} THEN [sk EXCEPT ![x] = "closing"] ELSE sk

\* connect(): `new WebSocket(url)` gives the socket x, assigned to wsRef
\* (thrown = FALSE), or throws and the catch block sets the reconnect timer.
connect(sk, tm, thrown) ==
    IF thrown
    THEN /\ nextTimer <= MaxTimers
         /\ timers' = tm \cup {nextTimer}
         /\ reconnectTimer' = nextTimer
         /\ nextTimer' = nextTimer + 1
         /\ sock' = sk
         /\ UNCHANGED wsRef
    ELSE /\ \E x \in Sockets :
              /\ sk[x] = "none"
              /\ \A y \in Sockets : y < x => sk[y] # "none"
              /\ sock' = [sk EXCEPT ![x] = "connecting"]
              /\ wsRef' = x
         /\ timers' = tm
         /\ UNCHANGED << reconnectTimer, nextTimer >>

\* the connection of socket x is established
WsOpen(x) ==
    /\ sock[x] = "connecting"
    /\ sock' = [sock EXCEPT ![x] = "open"]
    /\ UNCHANGED << mounted, wsRef, timers, reconnectTimer, nextTimer >>
    /\ UNCHANGED << navigatorOnLine, syncVars, uiVars, srvVars, authVars >>

\* the connection of socket x fails or the server ends it: ws.onerror calls
\* ws.close(), and the close event is pending
WsError(x) ==
    /\ sock[x] \in {"connecting", "open"}
    /\ sock' = Close(sock, x)
    /\ UNCHANGED << mounted, wsRef, timers, reconnectTimer, nextTimer >>
    /\ UNCHANGED << navigatorOnLine, syncVars, uiVars, srvVars, authVars >>

\* ws.onclose of socket x: reconnectTimer.current = setTimeout(connect, 5000)
WsClose(x) ==
    /\ sock[x] = "closing"
    /\ nextTimer <= MaxTimers
    /\ sock' = [sock EXCEPT ![x] = "closed"]
    /\ timers' = timers \cup {nextTimer}
    /\ reconnectTimer' = nextTimer
    /\ nextTimer' = nextTimer + 1
    /\ UNCHANGED << mounted, wsRef >>
    /\ UNCHANGED << navigatorOnLine, syncVars, uiVars, srvVars, authVars >>

\* the timer t fires and calls connect()
TimerFires(t, thrown) ==
    /\ t \in timers
    /\ connect(sock, timers \ {t}, thrown)
    /\ UNCHANGED mounted
    /\ UNCHANGED << navigatorOnLine, syncVars, uiVars, srvVars, authVars >>

\* the effect's cleanup at unmount: clearTimeout(reconnectTimer.current),
\* wsRef.current?.close()
Cleanup ==
    /\ mounted
    /\ mounted' = FALSE
    /\ timers' = timers \ {reconnectTimer}
    /\ sock' = Close(sock, wsRef)
    /\ UNCHANGED << wsRef, reconnectTimer, nextTimer >>
    /\ UNCHANGED << navigatorOnLine, syncVars, uiVars, srvVars, authVars >>

\* `options` changes, so `connect` is a new callback and the effect runs
\* again: its cleanup, then connect()
OptionsChange(thrown) ==
    /\ mounted
    /\ connect(Close(sock, wsRef), timers \ {reconnectTimer}, thrown)
    /\ UNCHANGED mounted
    /\ UNCHANGED << navigatorOnLine, syncVars, uiVars, srvVars, authVars >>

NextWs ==
    \/ \E x \in Sockets : WsOpen(x)
    \/ \E x \in Sockets : WsError(x)
    \/ \E x \in Sockets : WsClose(x)
    \/ \E t \in 1..MaxTimers, thrown \in BOOLEAN : TimerFires(t, thrown)
    \/ Cleanup
    \/ \E thrown \in BOOLEAN : OptionsChange(thrown)

SpecWs == InitUi /\ [][NextWs]_vars

\* ---------------------------------------------------------- server properties

ReportIds == 1..Len(srvReports)

\* the current call of draft q has been through detect-then-write
Answered(q) == req[q].pc \in {"responding", "done", "lost"}

\* C11: duplicate collapse: no two active Reports of one category lie within
\* the duplicate radius of each other, whatever the order or overlap of the
\* submissions, and a submission answered with a conflict names an existing
\* Report of its category within the radius on which its submitter has an
\* upvote.
C11_DuplicateCollapse ==
    /\ \A i \in ReportIds : \A j \in ReportIds :
          (i < j /\ srvReports[i].cat = srvReports[j].cat
                 /\ Distance(srvReports[i].pos, srvReports[j].pos) <= DuplicateRadius)
             => ~(Active(srvReports[i]) /\ Active(srvReports[j]))
    /\ \A q \in DraftIds :
          (Answered(q) /\ req[q].result = "conflict")
             => /\ req[q].match \in ReportIds
                /\ srvReports[req[q].match].cat = req[q].cat
                /\ Distance(srvReports[req[q].match].pos, req[q].pos) <= DuplicateRadius
                /\ HasRow(srvUpvotes, req[q].match, req[q].user)

\* two submissions at different points within the radius: the first created
\* the Report, the second got the conflict naming it
C11_Witness ==
    \E q1 \in DraftIds, q2 \in DraftIds :
        /\ req[q1].pc = "done" /\ req[q1].result = "created"
        /\ req[q2].pc = "done" /\ req[q2].result = "conflict"
        /\ req[q2].match = req[q1].match
        /\ req[q1].pos # req[q2].pos

\* C12: upvote idempotency: a (report, voter) pair never has more than one
\* Upvote row, and a Report's upvote_count is the number of voters upvote was
\* called for, however often it was called for each.
C12_UpvoteIdempotent ==
    /\ \A pr \in Pairs : srvUpvotes[pr] <= 1
    /\ \A r \in ReportIds :
          srvReports[r].upvote_count = Cardinality({v \in Users : voted[<< r, v >>] >= 1})

\* upvote has been called a second time for a pair
C12_Witness ==
    \E r \in ReportIds, v \in Users :
        /\ voted[<< r, v >>] = 2
        /\ srvUpvotes[<< r, v >>] = 1
        /\ srvReports[r].upvote_count = 1

\* number of Upvote rows of Report r among the voters 1..v
RECURSIVE RowsOf(_, _)
RowsOf(r, v) == IF v = 0 THEN 0 ELSE srvUpvotes[<< r, v >>] + RowsOf(r, v - 1)

\* C13: every Report's upvote_count equals the number of Upvote rows that
\* reference it, and no Upvote row references a Report that does not exist.
C13_CountEqualsRows ==
    /\ \A r \in ReportIds : srvReports[r].upvote_count = RowsOf(r, MaxUsers)
    /\ \A r \in Reqs \ ReportIds : RowsOf(r, MaxUsers) = 0

\* a Report upvoted through a conflict and through the upvote endpoint, whose
\* status an admin has changed
C13_Witness ==
    \E r \in ReportIds :
        /\ srvReports[r].upvote_count = 2
        /\ srvReports[r].status # "Reported"
        /\ \E q \in DraftIds : req[q].result = "conflict" /\ req[q].match = r
        /\ \E v \in Users : voted[<< r, v >>] = 2

\* the Reports created from draft q
ReportsOf(q) == {i \in ReportIds : srvReports[i].draft = q}

\* C14 as stated: however often the call for a draft is repeated after a lost
\* response, the draft yields at most one Report.
C14_OneReportPerDraft ==
    \A q \in DraftIds : Cardinality(ReportsOf(q)) <= 1

\* C14 as amended: a repeated call for a draft creates a second Report only
\* when the earlier Report of the draft is archived or has another category.
C14_RetryAbsorbedWhileActive ==
    \A i \in ReportIds : \A j \in ReportIds :
        (i < j /\ srvReports[i].draft = srvReports[j].draft)
           => \/ srvReports[i].archived
              \/ srvReports[i].cat # srvReports[j].cat

\* the response to the call that created the Report was lost, and the repeated
\* call was answered with a conflict naming that Report
C14_Witness ==
    \E q \in DraftIds :
        /\ req[q].attempt = 2
        /\ req[q].result = "conflict"
        /\ req[q].match \in ReportsOf(q)

\* --------------------------------------------------------------- UI properties

\* C1: a draft is deleted from the device-local draft store only after an
\* ingestion call for that draft has returned a terminal response (accepted or
\* conflict).
C1_DeletedOnlyAfterTerminal ==
    \A s \in deleted : s \in acked

\* C10: no ingestion call is issued for a submission that has not first been
\* stored as a draft.
C10_DraftBeforeCall ==
    \A s \in uiCalled : s \in drafted

\* ------------------------------------------------------------ sync properties

\* The draft a running drain is working on.
DraftOf(d) == drain[d].drafts[drain[d].i]

Stored(s) == \E id \in Ids : store[id] = s

\* C2: a conflict (409) response is terminal success: the draft it answers is
\* removed in that drain (the drain goes on to delete it) and is not retried.
C2_ConflictIsTerminal ==
    \A d \in DrainIds : drain[d].res = "conflict" => drain[d].pc = "delete"

\* C4: per-device FIFO: when a draft gets its first terminal outcome (accepted
\* or conflict), no draft created before it is still queued without one.
C4_PerDeviceFifo ==
    [][\A s2 \in Subs :
          (outcomes[s2] = 0 /\ outcomes'[s2] > 0)
             => \A s1 \in 1..(s2 - 1) : ~(Stored(s1) /\ outcomes[s1] = 0)]_vars

\* C5: a connectivity event during a running drain starts no second drain, so
\* no two ingestion calls of the device are in flight at the same time.
C5_OneInFlight ==
    Cardinality({d \in DrainIds : drain[d].pc = "await"}) <= 1

\* 2^n
RECURSIVE Pow2(_)
Pow2(n) == IF n = 0 THEN 1 ELSE 2 * Pow2(n - 1)

\* the base delay of the documented schedule (properties.test.ts: baseDelay)
BaseDelayMs == 2000

\* C6: backoff schedule: the delay slept after failed attempt k (zero-indexed)
\* is 2000 * 2^k ms: 2000, 4000, 8000.
C6_BackoffSchedule ==
    \A d \in DrainIds :
        \A k \in 1..Len(drain[d].waited) :
            drain[d].waited[k] = BaseDelayMs * Pow2(k - 1)

\* the documented maximum number of attempts (properties.test.ts: maxRetries)
MaxAttempts == 3

\* C7: retry budget: one uploadReport call never makes more than 3 ingestion
\* attempts for its draft.
C7_RetryBudget ==
    \A d \in DrainIds : drain[d].attempts <= MaxAttempts

\* C9: a validation error (4xx other than 409) is never retried: no drain
\* waits for a retry after such a response.
C9_ValidationNotRetried ==
    \A d \in DrainIds : drain[d].res = "invalid" => drain[d].pc # "sleep"

C15_InFlightKeptOverTeardown ==
    [][Restart =>
          \A d \in DrainIds :
              drain[d].pc = "await"
                 => /\ store'[DraftOf(d).id] = DraftOf(d).sub
                    /\ navigatorOnLine => drain'[1].pc = "getDrafts"]_vars

\* C19: a draft that is in the draft store stays in it, over any number of
\* relaunches, until an ingestion call for it has been answered terminally.
C19_Durable ==
    [][\A id \in Ids :
          (kv[id] # 0 /\ kv'[id] # kv[id]) => kv[id] \in acked']_vars

\* C16: when a drain deletes the draft it has uploaded, that draft is no
\* longer in the store and every other stored draft is left as it was.
C16_ExactlyUploadedRemoved ==
    [][\A d \in DrainIds :
          (drain[d].pc = "delete" /\ drain'[d] # drain[d])
             => /\ \A id \in Ids : store'[id] # DraftOf(d).sub
                /\ \A id \in Ids :
                      (store[id] # 0 /\ store[id] # DraftOf(d).sub) => store'[id] = store[id]]_vars

\* C17: a synchronisation run (a drain of App, a syncOfflineDrafts of
\* ReportContext) is started only by the debounced offline->online edge: in
\* the step in which the settled reachability changes from offline to online.
C17_TriggerOnDebouncedEdge ==
    [][(\/ \E k \in CtxSyncIds : ctxSync[k].pc = "idle" /\ ctxSync'[k].pc = "del"
        \/ \E d \in DrainIds : drain[d].pc = "idle" /\ drain'[d].pc = "getDrafts")
          => (~isOnline /\ isOnline')]_vars

\* C18: an enqueue whose write to the draft store failed is not observed by
\* its caller as a success.
C18_WriteFailureReported ==
    \A s \in writeFailed : s \notin notified

\* C20: after logout() has returned, isAuthenticated is false and no access
\* token is stored, until login or register is next invoked.
C20_LogoutSticks ==
    loggedOut => (~isAuthenticated /\ accessToken = 0)

\* C21: when the classifier is unavailable or throws, ingestion still
\* succeeds: the call is answered like any other, and a Report it creates has
\* severity 5 and category "Other", or the caller's override as category.
C21_ClassifierFallback ==
    \A q \in DraftIds :
        (Answered(q) /\ req[q].cls = "failed")
           => /\ req[q].result \in {"created", "conflict"}
              /\ req[q].result = "created"
                    => /\ req[q].match \in ReportIds
                       /\ srvReports[req[q].match].sev = DefaultSeverity
                       /\ srvReports[req[q].match].cat =
                             (IF req[q].override # "none" THEN req[q].override
                              ELSE DefaultCategory)

\* a submission without override whose classification failed has created a
\* Report, and the client has the response
C21_Witness ==
    \E q \in DraftIds :
        /\ req[q].pc = "done" /\ req[q].cls = "failed" /\ req[q].override = "none"
        /\ req[q].result = "created"
        /\ srvReports[req[q].match].cat = DefaultCategory

\* C22: only active Reports take part in duplicate detection: a submission
\* with no active Report of its category within the radius creates a new
\* Report, archived ones nearby notwithstanding, and a conflict names a Report
\* that is active when it is detected.
C22_ArchivedNotMatched ==
    [][\A q \in DraftIds :
          (req[q].pc = "detect" /\ req'[q].pc = "responding")
             => /\ (~\E i \in ReportIds :
                        /\ ~srvReports[i].archived
                        /\ srvReports[i].cat = req[q].cat
                        /\ Distance(srvReports[i].pos, req[q].pos) <= DuplicateRadius)
                     => /\ req'[q].result = "created"
                        /\ Len(srvReports') = Len(srvReports) + 1
                        /\ srvUpvotes' = srvUpvotes
                /\ req'[q].result = "conflict"
                     => ~srvReports[req'[q].match].archived]_vars

\* a Report marked Fixed and archived, and a later submission of its category
\* within the radius that created a new, active Report
C22_Witness ==
    \E i \in ReportIds, q \in DraftIds :
        /\ srvReports[i].status = "Fixed" /\ srvReports[i].archived
        /\ req[q].result = "created" /\ req[q].match \in ReportIds /\ req[q].match > i
        /\ srvReports[req[q].match].cat = srvReports[i].cat
        /\ Distance(srvReports[req[q].match].pos, srvReports[i].pos) <= DuplicateRadius
        /\ ~srvReports[req[q].match].archived

\* C23: the children of a ProtectedRoute are on screen only when auth loading
\* has finished and the user is authenticated, and on a requireAdmin route
\* only when the user's role is admin; once loading has finished, an
\* unauthenticated user is redirected to /login and an authenticated non-admin
\* on an admin route to /.
C23_RouteGuard ==
    /\ shown.element = "children"
          => /\ ~loading
             /\ isAuthenticated
             /\ shown.requireAdmin => RoleOf(user) = "admin"
    /\ (~loading /\ ~isAuthenticated) => shown.element = "Navigate /login"
    /\ (~loading /\ isAuthenticated /\ shown.requireAdmin /\ RoleOf(user) # "admin")
          => shown.element = "Navigate /"

\* a signed-in user who is not an administrator is on an admin route
C23_Witness ==
    /\ ~loading /\ isAuthenticated /\ RoleOf(user) = "user"
    /\ shown = [requireAdmin |-> TRUE, element |-> "Navigate /"]

\* C30: a login or register call that rejects leaves the stored credentials
\* as they were: with no access token stored before the call, no other call
\* pending and nobody signed in, none is stored after it, the user stays
\* unauthenticated and the error is set.
C30_FailedCallStoresNothing ==
    [][\A c \in AuthCalls :
          (/\ authCall[c].pc # "failed" /\ authCall'[c].pc = "failed"
           /\ authCall[c].before = 0
           /\ user = 0
           /\ mountGetMe.pc = "done"
           /\ \A b \in AuthCalls \ {c} : authCall[b].pc = "idle")
             => (accessToken' = 0 /\ user' = 0 /\ error')]_vars

\* an uploadReport call of drain d is running, for the k-th draft of its snapshot
Uploading(d, k) == drain[d].pc \in {"await", "sleep"} /\ drain[d].i = k

\* C24: uploadReport returns true (syncDrafts goes on to deleteDraft) only
\* when an attempt got an ok response, and false only when no attempt did and
\* no retries are left; the ok response ends the call, no fetch for the draft
\* follows it; and the call terminates when every fetch settles.
C24_UploadReport ==
    /\ [](\A d \in DrainIds :
            /\ drain[d].pc \in {"await", "sleep"}
                  => /\ drain[d].res # "created"
                     /\ drain[d].attempts + drain[d].retries = DefaultRetries + 1
            /\ drain[d].pc = "delete"
                  => /\ drain[d].res = "created"
                     /\ outcomes[drain[d].drafts[drain[d].i].sub] >= 1)
    /\ [][\A d \in DrainIds :
            /\ (drain[d].pc = "await" /\ failed' # failed)
                  => drain[d].retries = 0
            /\ (drain[d].pc = "await" /\ drain'[d].pc = "delete")
                  => drain'[d].attempts = drain[d].attempts
            /\ (drain[d].pc = "delete" /\ drain'[d] # drain[d])
                  => ~(drain'[d].pc \in {"await", "sleep"} /\ drain'[d].i = drain[d].i)]_vars
    /\ \A d \in DrainIds : \A k \in Ids : Uploading(d, k) ~> ~Uploading(d, k)

\* uploadReport has returned true on its last attempt, after three failures
C24_Witness ==
    \E d \in DrainIds :
        /\ drain[d].pc = "delete"
        /\ drain[d].attempts = DefaultRetries + 1
        /\ Len(drain[d].waited) = DefaultRetries

\* drain d is inside its loop
InLoop(d) == drain[d].pc \in {"await", "sleep", "delete"}

\* C25: one drain attempts every draft of the snapshot it read at its start,
\* in order: a draft whose upload fails stays in the store and the loop goes
\* on to the next draft, a draft whose upload succeeds is removed, and the
\* drain ends only after the last draft of the snapshot.
C25_EveryDraftAttempted ==
    [][\A d \in DrainIds :
          /\ (drain[d].pc = "getDrafts" /\ drain'[d] # drain[d])
                => /\ drain'[d].drafts = getDrafts(store) \/ drain'[d].pc = "idle"
                   /\ drain'[d].pc = "idle" => getDrafts(store) = << >>
                   /\ InLoop(d)' => drain'[d].i = 1
          /\ (InLoop(d) /\ drain'[d] # drain[d])
                => /\ InLoop(d)' => /\ drain'[d].drafts = drain[d].drafts
                                    /\ drain'[d].i \in {drain[d].i, drain[d].i + 1}
                   /\ drain'[d].pc = "idle" => drain[d].i = Len(drain[d].drafts)
          /\ (drain[d].pc = "await" /\ failed' # failed)
                => /\ store' = store
                   /\ drain[d].i < Len(drain[d].drafts)
                         => drain'[d].pc = "await" /\ drain'[d].i = drain[d].i + 1
          /\ (drain[d].pc = "delete" /\ drain'[d] # drain[d])
                => store'[drain[d].drafts[drain[d].i].id] = 0]_vars

\* the upload of the first draft of a snapshot failed and the draft is still
\* stored; the second was uploaded and removed, and the drain has ended
C25_Witness ==
    /\ \A d \in DrainIds : drain[d].pc = "idle"
    /\ nextSub = MaxSubs + 1
    /\ store[1] # 0 /\ failed = {store[1]}
    /\ store[2] = 0

\* C26: enqueue never loses an earlier draft: after saveDraft(d), every draft
\* that was in the store before the call is still there, unchanged.
C26_EnqueueKeepsEarlier ==
    [][nextSub' # nextSub
          => \A id \in Ids : store[id] # 0 => store'[id] = store[id]]_vars

\* the entries of a list of drafts
Entries(list) == {list[i] : i \in 1..Len(list)}

\* no addReport or syncOfflineDrafts call is in progress and loadDrafts has
\* finished
CtxQuiet == loadPc = "done" /\ \A k \in CtxSyncIds : ctxSync[k].pc = "idle"

\* C27: whenever no ReportContext call is in progress, offlineDrafts holds
\* exactly the drafts persisted in IndexedDB.
C27_ListMatchesStore ==
    CtxQuiet => Entries(offlineDrafts) = Entries(KvDraftsFrom(kv, 1))

\* C28: the reports list never holds two entries with the same report id.
C28_NoDuplicateIds ==
    \A i \in 1..Len(reports) : \A j \in 1..Len(reports) :
        i # j => reports[i].id # reports[j].id

\* C29: a mounted useWebSocket has at most one open or connecting WebSocket
\* and at most one pending reconnect timer, and after its cleanup has run no
\* connection is open or being opened and no reconnect timer is pending.
C29_OneSocketOneTimer ==
    /\ Cardinality(Live(sock)) <= 1
    /\ Cardinality(timers) <= 1
    /\ ~mounted => (Live(sock) = {} /\ timers = {})

====
